---- MODULE Spec2Model ----
(***************************************************************************)
(* A model of the AI-Tutor recommendation pipeline:                        *)
(*   data_preparation.py    prepare_data / calculate_mastery_score         *)
(*   performance_analysis.py PerformanceAnalyzer                           *)
(*   similarity_engine.py   SimilarityEngine                               *)
(*   recommendation_engine.py RecommendationEngine                         *)
(*                                                                         *)
(* Units.  A mastery score is kept in tenths of a point (900 = 90.0), an   *)
(* accuracy in whole percent (90 = 0.9), a time in whole seconds and an    *)
(* attempt average in tenths (15 = 1.5).  On that grid every quantity of   *)
(* calculate_mastery_score is an integer, so the arithmetic is exact; the  *)
(* rounding of binary floating point is not modelled.                      *)
(***************************************************************************)
EXTENDS Integers, Sequences, FiniteSets, TLC

VARIABLES
    phase,              \* position of main() in the preparation pipeline
    student_features,   \* the student-concept feature table (a sequence of rows)
    student_vectors,    \* SimilarityEngine.student_vectors
    similarity_matrix,  \* SimilarityEngine.similarity_matrix
    matrix_source,      \* history: the student_vectors compute_similarity last read
    ret                 \* the outcome of the last call made on an engine

vars == <<phase, student_features, student_vectors, similarity_matrix,
          matrix_source, ret>>

\* ------------------------------------------------------------------ bounds
MaxRows == 2        \* rows of the feature table in the preparation pipeline
MaxTopK == 2        \* largest top_k / top_n passed to a peer query
MaxSamples == 5     \* rows of a feature table handed to the classifier

\* -------------------------------------------------------- program constants
TENTH == 10                       \* tenths of a point per point
TimeFree == 60                    \* seconds answered without a time penalty
TimePenaltyCap == 10 * TENTH      \* min(10, ...)
AttemptFree == 15                 \* avg_attempts (tenths) without a penalty
AttemptPenaltyCap == 5 * TENTH    \* min(5, ...)
WeakBelow == 70 * TENTH           \* is_weak_concept = mastery_score < 70
AdvancedFrom == 85 * TENTH
IntermediateFrom == 70 * TENTH
BeginnerFrom == 50 * TENTH
StrongConceptCap == 5             \* strong_concepts[:5]
DefaultTopK == 5                  \* find_similar_students(top_k=5)
DefaultThreshold == 70 * TENTH    \* analyze_peer_patterns(mastery_threshold=70)

Min(a, b) == IF a <= b THEN a ELSE b
Max(a, b) == IF a >= b THEN a ELSE b

\* ------------------------------------------------- data_preparation.py
\* The input grids of one aggregated (student, concept) group.
AccuracyGrid == {0, 50, 70, 90, 100}
TimeGrid     == {0, 40, 90, 200}
AttemptGrid  == {0, 10, 15, 20, 40}

\* The (student_id, concept_id) keys of the groups, in groupby order.
GroupKey(i) == [student_id |-> ((i - 1) \div 2) + 1, concept_id |-> ((i - 1) % 2) + 1]

time_penalty_wrong(avg_time_taken) ==
    IF avg_time_taken > TimeFree
    THEN ((avg_time_taken - TimeFree) * TENTH) \div 10
    ELSE 0

\* min(10, (avg_time_taken - 60) / 10) if avg_time_taken > 60 else 0
time_penalty(avg_time_taken) ==
    IF avg_time_taken > TimeFree
    THEN Min(TimePenaltyCap, ((avg_time_taken - TimeFree) * TENTH) \div 10)
    ELSE 0

\* min(5, (avg_attempts - 1) * 2) if avg_attempts > 1.5 else 0
attempt_penalty(avg_attempts) ==
    IF avg_attempts > AttemptFree
    THEN Min(AttemptPenaltyCap, (avg_attempts - 10) * 2)
    ELSE 0

calculate_mastery_score_nofloor(row) ==
    row.accuracy * TENTH - time_penalty(row.avg_time_taken)
        - attempt_penalty(row.avg_attempts)

\* max(0, base_score - time_penalty - attempt_penalty)
calculate_mastery_score(row) ==
    Max(0, row.accuracy * TENTH - time_penalty(row.avg_time_taken)
            - attempt_penalty(row.avg_attempts))

is_weak_concept(score) == score < WeakBelow

\* ------------------------------------------------ performance_analysis.py
mastery_level_swapped(score) ==
    IF score >= AdvancedFrom THEN "Advanced"
    ELSE IF score >= IntermediateFrom THEN "Beginner"
    ELSE IF score >= BeginnerFrom THEN "Intermediate"
    ELSE "Struggling"

\* the if/elif chain of analyze_concept_mastery
mastery_level(score) ==
    IF score >= AdvancedFrom THEN "Advanced"
    ELSE IF score >= IntermediateFrom THEN "Intermediate"
    ELSE IF score >= BeginnerFrom THEN "Beginner"
    ELSE "Struggling"

\* ---- classify_concept_mastery
concept_mastery_threshold == 70 * TENTH     \* self.concept_mastery_threshold = 70
FallbackBelow == 5                          \* if len(X) < 5
RequiredColumns == {"accuracy", "avg_time_taken", "avg_attempts", "total_questions",
                    "mastery_score"}

\* Aggregated (student, concept) groups a classified table is made of; their
\* scores are 90, 45 and exactly 70.
SampleGroups ==
    { [accuracy |-> 90, avg_time_taken |-> 40, avg_attempts |-> 10, total_questions |-> 4],
      [accuracy |-> 50, avg_time_taken |-> 90, avg_attempts |-> 20, total_questions |-> 2],
      [accuracy |-> 70, avg_time_taken |-> 40, avg_attempts |-> 10, total_questions |-> 3] }

\* a group after prepare_data and analyze_concept_mastery
AnalyzedRow(g) ==
    g @@ [mastery_score |-> calculate_mastery_score(g),
          is_weak_concept |-> is_weak_concept(calculate_mastery_score(g)),
          mastery_level |-> mastery_level(calculate_mastery_score(g))]

\* The tables classify_concept_mastery is called with: up to MaxSamples analysed
\* rows, or a short table of raw groups that has no mastery_score column.
ClassifierTables ==
    UNION {[1..n -> {AnalyzedRow(g) : g \in SampleGroups}] : n \in 0..MaxSamples}
        \cup UNION {[1..n -> SampleGroups] : n \in 1..2}

\* missing_cols is empty
HasRequiredColumns(features) ==
    \A i \in 1..Len(features) : RequiredColumns \subseteq DOMAIN features[i]

\* y = (features["mastery_score"] >= self.concept_mastery_threshold).astype(int)
rule_label(row) == IF row.mastery_score >= concept_mastery_threshold THEN 1 ELSE 0

UseFallback_two(features) == Len(features) < 2

\* the cold-start test
UseFallback(features) == Len(features) < FallbackBelow

\* train_test_split(test_size=0.2): ceil(0.2 * n) rows are held out
TestSize(n) == (n + 4) \div 5
TestSplits(n) == {T \in SUBSET (1..n) : Cardinality(T) = TestSize(n)}

\* A fitted model's probability of class 1 for a row, in percent; predict is 1
\* exactly when it is above 50.
ProbabilityGrid == {20, 80}

\* classify_concept_mastery(features), with `test` the rows the split holds out and
\* `proba` the fitted model's probabilities: the returned table and accuracy
\* score (percent).  LogisticRegression.fit raises when the training labels are
\* all of one class.
classify_concept_mastery(features, test, proba) ==
    LET n == Len(features)
        same == [outcome |-> "ok", trained |-> FALSE, features |-> features, score |-> 0]
    IN IF features = <<>> THEN same
       ELSE IF ~HasRequiredColumns(features) THEN same
       ELSE IF UseFallback(features)
       THEN [outcome |-> "ok", trained |-> FALSE, score |-> 0,
             features |-> [i \in 1..n |->
                 features[i] @@ [predicted_mastery |-> rule_label(features[i]),
                                 mastery_probability |-> 100 * rule_label(features[i])]]]
       ELSE IF \A i, j \in (1..n) \ test : rule_label(features[i]) = rule_label(features[j])
       THEN [outcome |-> "ValueError", trained |-> FALSE, features |-> features, score |-> 0]
       ELSE [outcome |-> "ok", trained |-> TRUE,
             score |-> (100 * Cardinality({i \in test :
                           (IF proba[i] > 50 THEN 1 ELSE 0) = rule_label(features[i])}))
                       \div Cardinality(test),
             features |-> [i \in 1..n |->
                 features[i] @@ [predicted_mastery |-> IF proba[i] > 50 THEN 1 ELSE 0,
                                 mastery_probability |-> proba[i]]]]

NoneVectors == [built |-> FALSE, index |-> <<>>, columns |-> <<>>, values |-> <<>>]
NoneMatrix == [present |-> FALSE, rows |-> <<>>]
\* top_n = -1 stands for top_n=None
NoRet == [op |-> "none", sid |-> 0, top_k |-> 0, top_n |-> -1, threshold |-> 0,
          outcome |-> "none", peers |-> <<>>, patterns |-> <<>>,
          trained |-> FALSE, score |-> 0,
          weak_in |-> <<>>, lookups |-> <<>>, content |-> <<>>, behavior |-> <<>>,
          merged |-> <<>>, scheduled_from |-> <<>>, path |-> <<>>, schedule |-> <<>>,
          weak |-> [is_none |-> FALSE, rows |-> <<>>],
          plan |-> [student_id |-> 0, learning_style |-> "", weak_concepts_count |-> 0,
                    learning_path |-> <<>>, recommendations |-> <<>>,
                    study_schedule |-> <<>>]]


\* ---------------------------------------------------- similarity_engine.py
\* The concept table's concept_id column, in table order (main.py:110), and a
\* concept_id that questions refer to but the concept table does not hold.
\* concept_table.csv: (concept_id, concept_name, level, prerequisite_id), in file
\* order; prerequisite_id 0 stands for an empty cell.  A name is a sequence of
\* characters.
ConceptTable == <<
    [concept_id |-> 2, concept_name |-> <<"G","e","o">>,     level |-> 2, prerequisite_id |-> 1],
    [concept_id |-> 1, concept_name |-> <<"A","l","g">>,     level |-> 1, prerequisite_id |-> 0],
    [concept_id |-> 3, concept_name |-> <<"S","e","t","s">>, level |-> 1, prerequisite_id |-> 0],
    [concept_id |-> 4, concept_name |-> <<"T","r","i","g">>, level |-> 3, prerequisite_id |-> 2],
    [concept_id |-> 5, concept_name |-> <<"C","a","l","c">>, level |-> 2, prerequisite_id |-> 1],
    [concept_id |-> 6, concept_name |-> <<"P","r","o","b">>, level |-> 1, prerequisite_id |-> 3] >>

\* concepts["concept_id"].unique()
AllConcepts == [i \in 1..Len(ConceptTable) |-> ConceptTable[i].concept_id]
OrphanConcept == Len(AllConcepts) + 1

\* A student's mastery records: concept_id -> mastery_score (tenths of a point).
NoRecords == [c \in {} |-> 0]
MixedProfile == (1 :> 900 @@ 2 :> 400 @@ 3 :> 600 @@ 5 :> 450 @@ 6 :> 650)
StrongProfile == (1 :> 800 @@ 2 :> 750 @@ 3 :> 700 @@ 4 :> 1000 @@ 5 :> 850
                  @@ 6 :> 950 @@ OrphanConcept :> 650)
Profiles == {NoRecords, MixedProfile, StrongProfile}
ScoreUnit == 5 * TENTH     \* every score of Profiles is a multiple of it

NumStudents == 3    \* student ids 1..NumStudents may have records
StudentIds == 1..NumStudents
QueryIds == 1..(NumStudents + 1)      \* the last id never has records

\* student_concept_df: one (student_id, concept_id, mastery_score) row for every
\* concept of every student's profile; each (student, concept) pair occurs once.
DataFrames == [StudentIds -> Profiles]

RECURSIVE SortedSeq(_)
\* the elements of a finite set of integers in ascending order
SortedSeq(S) ==
    IF S = {} THEN <<>>
    ELSE LET m == CHOOSE x \in S : \A y \in S : x <= y
         IN <<m>> \o SortedSeq(S \ {m})

SeqRange(q) == {q[i] : i \in 1..Len(q)}

RECURSIVE SelectSeqIdx(_, _)
\* the subsequence of q whose elements are not in S
SelectSeqIdx(q, S) ==
    IF q = <<>> THEN <<>>
    ELSE (IF Head(q) \in S THEN <<>> ELSE <<Head(q)>>) \o SelectSeqIdx(Tail(q), S)

IndexOf(q, x) == CHOOSE i \in 1..Len(q) : q[i] = x

pivot_columns_only(df, all_concepts) ==
    SortedSeq(UNION {DOMAIN df[s] : s \in DOMAIN df})

\* pivot_table's columns (sorted concept ids of the records), then every concept
\* of all_concepts that is not yet a column, in all_concepts order
pivot_columns(df, all_concepts) ==
    LET present == UNION {DOMAIN df[s] : s \in DOMAIN df}
    IN SortedSeq(present) \o SelectSeqIdx(all_concepts, present)

\* create_student_vectors: index = the students with a record, sorted;
\* fillna(0.0) for every concept a student has no record for
pivot_table(df, all_concepts) ==
    LET index == SortedSeq({s \in DOMAIN df : DOMAIN df[s] # {}})
        columns == pivot_columns(df, all_concepts)
    IN [built |-> TRUE, index |-> index, columns |-> columns,
        values |-> [i \in 1..Len(index) |->
                      [j \in 1..Len(columns) |->
                          IF columns[j] \in DOMAIN df[index[i]]
                          THEN df[index[i]][columns[j]] ELSE 0]]]

\* DataFrame.empty: some axis has length 0
IsEmpty(v) == Len(v.index) = 0 \/ Len(v.columns) = 0

RECURSIVE Dot(_, _)
Dot(a, b) ==
    IF a = <<>> THEN 0
    ELSE (Head(a) \div ScoreUnit) * (Head(b) \div ScoreUnit) + Dot(Tail(a), Tail(b))

\* A cosine is kept as the fraction n/d = cos^2; every score is >= 0, so every
\* cosine is >= 0 and cos^2 orders as cos does.  A row of norm 0 has cosine 0
\* with every row (sklearn normalises it to the zero row).
Cosine(a, b) ==
    IF Dot(a, a) = 0 \/ Dot(b, b) = 0 THEN [n |-> 0, d |-> 1]
    ELSE [n |-> Dot(a, b) * Dot(a, b), d |-> Dot(a, a) * Dot(b, b)]

\* cosine_similarity(X): the full pairwise matrix
cosine_similarity(values) ==
    [i \in 1..Len(values) |-> [j \in 1..Len(values) |-> Cosine(values[i], values[j])]]

RECURSIVE FracLess(_, _, _, _)
\* a/b < c/d for a, c >= 0 and b, d > 0, by continued fractions (no overflow)
FracLess(a, b, c, d) ==
    IF a \div b # c \div d THEN a \div b < c \div d
    ELSE IF c % d = 0 THEN FALSE
    ELSE IF a % b = 0 THEN TRUE
    ELSE FracLess(d, c % d, b, a % b)

SimLess(x, y) == FracLess(x.n, x.d, y.n, y.d)
SimEq(x, y) == ~SimLess(x, y) /\ ~SimLess(y, x)

RECURSIVE InsertDesc(_, _)
\* x placed behind every element that is not smaller: equal keys keep their order
InsertDesc(sorted, x) ==
    IF sorted = <<>> THEN <<x>>
    ELSE IF SimLess(Head(sorted).similarity, x.similarity)
         THEN <<x>> \o sorted
         ELSE <<Head(sorted)>> \o InsertDesc(Tail(sorted), x)

RECURSIVE SortDescFrom(_, _)
SortDescFrom(sorted, q) ==
    IF q = <<>> THEN sorted ELSE SortDescFrom(InsertDesc(sorted, Head(q)), Tail(q))

sort_unsorted(results) == results

\* results.sort(key=lambda x: x[1], reverse=True): stable, descending
sort_by_similarity(results) == SortDescFrom(<<>>, results)

Prefix(q, k) == SubSeq(q, 1, Min(k, Len(q)))

peer_rows_all(row, student_idx) == 1..Len(row)

peer_rows_by_score(row, student_idx) ==
    {idx \in 1..Len(row) : row[idx] # row[student_idx]}

\* the idx != student_idx filter of the result loop (1-based positions)
peer_rows(row, student_idx) == {idx \in 1..Len(row) : idx # student_idx}

ComputeFails_none_only == ~student_vectors.built

\* compute_similarity raises: student_vectors is None or student_vectors.empty
ComputeFails == ~student_vectors.built \/ IsEmpty(student_vectors)

\* find_similar_students after the lazy compute_similarity, with `m` the matrix
\* it reads: the outcome and the peer list.
find_in(m, student_id, top_k, top_n) ==
    LET v == student_vectors
        k == IF top_n # -1 THEN top_n ELSE top_k
    IN IF student_id \notin SeqRange(v.index)
       THEN [outcome |-> "NotFound", peers |-> <<>>]
       ELSE LET student_idx == IndexOf(v.index, student_id)
            IN IF student_idx > Len(m.rows)
                  \/ \E idx \in peer_rows(m.rows[student_idx], student_idx) :
                         idx > Len(v.index)
               THEN [outcome |-> "IndexError", peers |-> <<>>]
               ELSE LET row == m.rows[student_idx]
                        results == [i \in 1..Cardinality(peer_rows(row, student_idx)) |->
                            LET idx == SortedSeq(peer_rows(row, student_idx))[i]
                            IN [peer_id |-> v.index[idx], similarity |-> row[idx]]]
                    IN [outcome |-> "ok",
                        peers |-> Prefix(sort_by_similarity(results), k)]

MatrixRead_fresh ==
    [present |-> TRUE, rows |-> cosine_similarity(student_vectors.values)]

\* The matrix find_similar_students reads: the cached one, or a fresh one.
MatrixRead ==
    IF similarity_matrix.present THEN similarity_matrix
    ELSE [present |-> TRUE, rows |-> cosine_similarity(student_vectors.values)]

find_similar_students_lenient(student_id, top_k, top_n) ==
    IF ~similarity_matrix.present /\ ComputeFails
    THEN [outcome |-> "Uninitialized", peers |-> <<>>]
    ELSE IF student_id \notin SeqRange(student_vectors.index)
    THEN [outcome |-> "ok", peers |-> <<>>]
    ELSE find_in(MatrixRead, student_id, top_k, top_n)

find_similar_students(student_id, top_k, top_n) ==
    IF ~similarity_matrix.present /\ ComputeFails
    THEN [outcome |-> "Uninitialized", peers |-> <<>>]
    ELSE find_in(MatrixRead, student_id, top_k, top_n)

RECURSIVE SelectStrong(_, _, _)
\* the (concept_id, mastery_score) pairs of a vector row with score >= threshold,
\* in column order
SelectStrong(columns, row, threshold) ==
    IF columns = <<>> THEN <<>>
    ELSE (IF Head(row) >= threshold
          THEN <<[concept_id |-> Head(columns), mastery_score |-> Head(row)]>>
          ELSE <<>>) \o SelectStrong(Tail(columns), Tail(row), threshold)

strong_concepts_uncapped(peer_id, threshold) ==
    SelectStrong(student_vectors.columns,
                 student_vectors.values[IndexOf(student_vectors.index, peer_id)],
                 threshold)

\* strong_concepts[:5] of one peer
strong_concepts(peer_id, threshold) ==
    Prefix(SelectStrong(student_vectors.columns,
                        student_vectors.values[IndexOf(student_vectors.index, peer_id)],
                        threshold),
           StrongConceptCap)

\* analyze_peer_patterns: the dict, as the sequence of its items in insertion order
analyze_peer_patterns(student_id, top_k, threshold) ==
    LET found == find_similar_students(student_id, top_k, -1)
    IN [outcome |-> found.outcome,
        patterns |-> [i \in 1..Len(found.peers) |->
            [peer_id |-> found.peers[i].peer_id,
             similarity |-> found.peers[i].similarity,
             strong_concepts |-> strong_concepts(found.peers[i].peer_id, threshold)]]]

\* The lazy compute_similarity of a peer query changes the cache when it succeeds.
LazyCompute ==
    IF ~similarity_matrix.present /\ ~ComputeFails
    THEN /\ similarity_matrix' = MatrixRead
         /\ matrix_source' = student_vectors
    ELSE UNCHANGED <<similarity_matrix, matrix_source>>
\* ------------------------------------------------ recommendation tables
\* learning_resources_full.csv, in file order.  A rating is kept in tenths.
Res(id, cid, cname, rname, rtype, diff, dur, rating, views) ==
    [resource_id |-> id, concept_id |-> cid, concept_name |-> cname,
     resource_name |-> rname, resource_type |-> rtype, difficulty |-> diff,
     duration_minutes |-> dur, rating |-> rating, view_count |-> views]

Geo == <<"G","e","o">>
Calc == <<"C","a","l","c">>
Prob == <<"P","r","o","b">>
Trig == <<"T","r","i","g">>
UnlistedConcept == 9        \* a concept_id of the catalog the concept table lacks

Resources == <<
    Res(1, 2, Geo, "R1", "video", "Beginner", 10, 45, 100),
    Res(2, 2, Geo, "R2", "article", "Beginner", 15, 50, 50),
    Res(3, 2, Geo, "R3", "video", "Intermediate", 20, 50, 10),
    Res(4, 2, Geo, "R4", "quiz", "Beginner", 5, 45, 200),
    Res(5, 2, Geo, "R5", "video", "Beginner", 30, 40, 5),
    Res(6, 5, Calc, "R6", "video", "Beginner", 12, 49, 30),
    Res(7, 5, Calc, "R7", "article", "Beginner", 8, 30, 20),
    Res(8, 5, Calc, "R8", "quiz", "Advanced", 25, 20, 500),
    Res(9, 5, Calc, "R9", "video", "Beginner", 9, 30, 20),
    Res(10, UnlistedConcept, <<"a"," ","s","e","t","s">>, "R10", "video",
        "Intermediate", 11, 44, 10),
    Res(11, UnlistedConcept, <<"S","E","T","S">>, "R11", "quiz", "Advanced", 14, 46, 3),
    Res(12, UnlistedConcept, <<"s","e","t","s">>, "R12", "article", "Beginner", 7, 43, 2),
    Res(13, UnlistedConcept, <<"S","u","b","s","e","t","s">>, "R13", "video",
        "Beginner", 6, 41, 7),
    Res(14, 6, Prob, "R14", "video", "Beginner", 10, 42, 10),
    Res(15, 6, Prob, "R15", "article", "Intermediate", 10, 42, 10),
    Res(16, 6, Prob, "R16", "quiz", "Advanced", 10, 49, 1),
    Res(17, 6, Prob, "R17", "video", "Intermediate", 10, 41, 9),
    Res(18, 4, Trig, "R18", "video", "Advanced", 18, 47, 5),
    Res(19, 4, Trig, "R19", "article", "Beginner", 16, 47, 8) >>

\* student_table.csv: (student_id, learning_style).  Student 3 has no row; the
\* last student has a row and never a performance record.
StudentsTable == <<
    [student_id |-> 1, learning_style |-> "visual"],
    [student_id |-> 2, learning_style |-> "auditory"],
    [student_id |-> NumStudents + 1, learning_style |-> "kinesthetic"] >>

\* A cell that holds no string (NaN after a left merge).
NoName == <<"NaN">>

concept_name_of(concept_id) ==
    LET hit == SelectSeq(ConceptTable, LAMBDA c : c.concept_id = concept_id)
    IN IF hit = <<>> THEN NoName ELSE hit[1].concept_name

RECURSIVE FeatureRowsOf(_, _)
\* the rows of one student, in concept_id order, with the merged concept_name
\* (main.py:38-42) and the mastery_level of analyze_concept_mastery
FeatureRowsOf(student_id, profile) ==
    IF DOMAIN profile = {} THEN <<>>
    ELSE LET c == CHOOSE x \in DOMAIN profile : \A y \in DOMAIN profile : x <= y
         IN <<[student_id |-> student_id, concept_id |-> c,
               concept_name |-> concept_name_of(c),
               mastery_score |-> profile[c],
               mastery_level |-> mastery_level(profile[c])]>>
            \o FeatureRowsOf(student_id, [x \in DOMAIN profile \ {c} |-> profile[x]])

RECURSIVE FeatureRowsFrom(_, _)
FeatureRowsFrom(df, students) ==
    IF students = <<>> THEN <<>>
    ELSE FeatureRowsOf(Head(students), df[Head(students)])
            \o FeatureRowsFrom(df, Tail(students))

\* the student-concept feature table of a data frame, in groupby order
FeatureRows(df) == FeatureRowsFrom(df, SortedSeq(DOMAIN df))

\* The feature tables a RecommendationEngine is constructed with.
FeatureTables ==
    { FeatureRows([s \in StudentIds |-> NoRecords]),
      FeatureRows([s \in StudentIds |-> IF s = 2 THEN StrongProfile ELSE MixedProfile]) }

\* ------------------------------------------------------ generic sorting
RECURSIVE LexLess(_, _)
\* tuple comparison of two equally long integer keys
LexLess(a, b) ==
    IF a = <<>> THEN FALSE
    ELSE IF Head(a) # Head(b) THEN Head(a) < Head(b)
    ELSE LexLess(Tail(a), Tail(b))

RECURSIVE InsertIdx(_, _, _)
InsertIdx(sorted, i, keys) ==
    IF sorted = <<>> THEN <<i>>
    ELSE IF LexLess(keys[i], keys[Head(sorted)]) THEN <<i>> \o sorted
    ELSE <<Head(sorted)>> \o InsertIdx(Tail(sorted), i, keys)

RECURSIVE SortIdxFrom(_, _, _)
SortIdxFrom(sorted, i, keys) ==
    IF i > Len(keys) THEN sorted
    ELSE SortIdxFrom(InsertIdx(sorted, i, keys), i + 1, keys)

\* a stable ascending sort of rows by the parallel sequence of keys
SortByKeys(rows, keys) ==
    LET order == SortIdxFrom(<<>>, 1, keys)
    IN [k \in 1..Len(rows) |-> rows[order[k]]]

\* ------------------------------------- PerformanceAnalyzer.get_weak_concepts
NoneWeak == [is_none |-> TRUE, rows |-> <<>>]

\* None for an empty table or a student without rows; otherwise the Struggling
\* and Beginner rows of the student, sorted by mastery_score ascending
get_weak_concepts(student_id, features) ==
    LET student_data == SelectSeq(features, LAMBDA r : r.student_id = student_id)
        weak == SelectSeq(student_data,
                          LAMBDA r : r.mastery_level \in {"Struggling", "Beginner"})
    IN IF features = <<>> \/ student_data = <<>> THEN NoneWeak
       ELSE [is_none |-> FALSE,
             rows |-> SortByKeys(weak, [i \in 1..Len(weak) |-> <<weak[i].mastery_score>>])]

\* ------------------------------------------------ recommendation_engine.py
ContentTopN == 3            \* get_content_based_recommendations(top_n=3)
ContentCap == 10            \* recommendations[:10]
RecommendationCap == 5      \* list(recommendations.values())[:5]
ScheduleCap == 7            \* recommendations[:7]
SelfSufficient == 80 * TENTH    \* mastery["mastery_score"].iloc[0] >= 80
TargetMastery == 80 * TENTH     \* "target_mastery": 80
Days == <<"Monday", "Tuesday", "Wednesday", "Thursday", "Friday", "Saturday", "Sunday">>

ToLower(ch) ==
    CASE ch = "A" -> "a" [] ch = "C" -> "c" [] ch = "E" -> "e" [] ch = "G" -> "g"
      [] ch = "P" -> "p" [] ch = "S" -> "s" [] ch = "T" -> "t" [] OTHER -> ch

Lower(name) == [i \in 1..Len(name) |-> ToLower(name[i])]

\* str.contains(pat, case=False, regex=False): pat occurs in the cell, literally
Contains(cell, pat) ==
    \E i \in 0..(Len(cell) - Len(pat)) :
        SubSeq(Lower(cell), i + 1, i + Len(pat)) = Lower(pat)

IsStr(name) == name # NoName
IsBlank(name) == \A i \in 1..Len(name) : name[i] = " "

lookup_of_unguarded(concept_id, concept_name) ==
    IF \E i \in 1..Len(Resources) : Resources[i].concept_id = concept_id
    THEN "concept_id"
    ELSE "concept_name"

\* which lookup gives the resources of a weak concept: the concept_id match when
\* it is not empty, else the name match when the name is a non-blank string
lookup_of(concept_id, concept_name) ==
    IF \E i \in 1..Len(Resources) : Resources[i].concept_id = concept_id
    THEN "concept_id"
    ELSE IF IsStr(concept_name) /\ ~IsBlank(concept_name) THEN "concept_name"
    ELSE "none"

\* the resources of a weak concept
concept_resources(concept_id, concept_name) ==
    IF lookup_of(concept_id, concept_name) = "concept_id"
    THEN SelectSeq(Resources, LAMBDA r : r.concept_id = concept_id)
    ELSE IF lookup_of(concept_id, concept_name) = "concept_name"
    THEN SelectSeq(Resources, LAMBDA r : Contains(r.concept_name, concept_name))
    ELSE <<>>

suitable_for_lenient(level, resources) ==
    IF level \in {"Struggling", "Beginner"}
    THEN SelectSeq(resources, LAMBDA r : r.difficulty \in {"Beginner", "Intermediate"})
    ELSE resources

\* the difficulty filter of a mastery_level
suitable_for(level, resources) ==
    IF level = "Struggling"
    THEN SelectSeq(resources, LAMBDA r : r.difficulty = "Beginner")
    ELSE IF level = "Beginner"
    THEN SelectSeq(resources, LAMBDA r : r.difficulty \in {"Beginner", "Intermediate"})
    ELSE resources

sort_by_rating_only(resources) ==
    SortByKeys(resources, [i \in 1..Len(resources) |-> <<-resources[i].rating>>])

\* sort_values(["rating", "view_count"], ascending=[False, False])
sort_by_rating_views(resources) ==
    SortByKeys(resources,
               [i \in 1..Len(resources) |-> <<-resources[i].rating, -resources[i].view_count>>])

RecItem(concept_id, concept_name, resource, reason) ==
    [concept_id |-> concept_id, concept_name |-> concept_name,
     resource_id |-> resource.resource_id, resource_name |-> resource.resource_name,
     resource_type |-> resource.resource_type, difficulty |-> resource.difficulty,
     duration_minutes |-> resource.duration_minutes, rating |-> resource.rating,
     reason |-> reason]

\* the recommendations of one weak concept
content_for(w, top_n) ==
    LET found == concept_resources(w.concept_id, w.concept_name)
        suitable == Prefix(sort_by_rating_views(suitable_for(w.mastery_level, found)), top_n)
    IN [i \in 1..Len(suitable) |->
           RecItem(w.concept_id, w.concept_name, suitable[i],
                   [kind |-> "low_mastery", concept_name |-> w.concept_name,
                    mastery_score |-> w.mastery_score, peer_id |-> 0, similarity |-> 0])]

RECURSIVE content_all(_, _)
content_all(weak_rows, top_n) ==
    IF weak_rows = <<>> THEN <<>>
    ELSE content_for(Head(weak_rows), top_n) \o content_all(Tail(weak_rows), top_n)

get_content_based_recommendations(weak_rows, top_n) ==
    Prefix(content_all(weak_rows, top_n), ContentCap)

RECURSIVE RoundIn(_, _, _)
\* the largest k of lo..hi with ((2k - 1) / 200)^2 <= sim, by bisection
RoundIn(sim, lo, hi) ==
    IF lo = hi THEN lo
    ELSE LET mid == (lo + hi + 1) \div 2
         IN IF FracLess(sim.n, sim.d, (2 * mid - 1) * (2 * mid - 1), 40000)
            THEN RoundIn(sim, lo, mid - 1)
            ELSE RoundIn(sim, mid, hi)

\* f"{similarity:.2f}": the cosine in hundredths, rounded to the nearest
Hundredths(sim) == RoundIn(sim, 0, 100)

BestCandidates_any(concept_id) ==
    {r \in SeqRange(Resources) : r.concept_id = concept_id}

\* the resources of a concept that sort_values("rating", ascending=False) may
\* put first: the sort is not stable, any resource of the highest rating
BestCandidates(concept_id) ==
    {r \in SeqRange(Resources) :
        /\ r.concept_id = concept_id
        /\ \A q \in SeqRange(Resources) : q.concept_id = concept_id => q.rating <= r.rating}

CatalogConcepts == {Resources[i].concept_id : i \in 1..Len(Resources)}

RECURSIVE ChoicesOver(_)
\* every way to take one best candidate for each concept of a set
ChoicesOver(concept_ids) ==
    IF concept_ids = {} THEN {[c \in {} |-> 0]}
    ELSE LET c == CHOOSE x \in concept_ids : TRUE
         IN {(c :> r) @@ rest : r \in BestCandidates(c),
                                rest \in ChoicesOver(concept_ids \ {c})}

BestChoices == ChoicesOver(CatalogConcepts)

\* the recommendation, if any, of one strong concept of one peer
behavior_for(features, student_id, peer, strong, best) ==
    LET mastery == SelectSeq(features,
            LAMBDA r : r.student_id = student_id /\ r.concept_id = strong.concept_id)
    IN IF mastery # <<>> /\ mastery[1].mastery_score >= SelfSufficient THEN <<>>
       ELSE IF strong.concept_id \notin CatalogConcepts THEN <<>>
       ELSE <<RecItem(strong.concept_id, <<"id", ToString(strong.concept_id)>>,
                      best[strong.concept_id],
                      [kind |-> "peer", concept_name |-> <<>>, mastery_score |-> 0,
                       peer_id |-> peer.peer_id,
                       similarity |-> Hundredths(peer.similarity)])>>

RECURSIVE behavior_of_peer(_, _, _, _, _)
behavior_of_peer(features, student_id, peer, strong_list, best) ==
    IF strong_list = <<>> THEN <<>>
    ELSE behavior_for(features, student_id, peer, Head(strong_list), best)
            \o behavior_of_peer(features, student_id, peer, Tail(strong_list), best)

RECURSIVE get_behavior_based_recommendations(_, _, _, _)
get_behavior_based_recommendations(features, student_id, peer_patterns, best) ==
    IF peer_patterns = <<>> THEN <<>>
    ELSE behavior_of_peer(features, student_id, Head(peer_patterns),
                          Head(peer_patterns).strong_concepts, best)
            \o get_behavior_based_recommendations(features, student_id,
                                                  Tail(peer_patterns), best)

RecKey(r) == <<r.concept_id, r.resource_id>>

RECURSIVE MergeByKey(_, _)
\* {(concept_id, resource_id): r for r in recs}: a key keeps the place of its
\* first insertion and the value of its last; the values in insertion order
MergeByKey(merged, recs) ==
    IF recs = <<>> THEN merged
    ELSE LET r == Head(recs)
             at == {i \in 1..Len(merged) : RecKey(merged[i]) = RecKey(r)}
         IN MergeByKey(IF at = {} THEN Append(merged, r)
                       ELSE [i \in 1..Len(merged) |-> IF i \in at THEN r ELSE merged[i]],
                       Tail(recs))

merge_recommendations_first_wins(recs) ==
    LET firsts == SelectSeq([i \in 1..Len(recs) |-> i],
                            LAMBDA i : \A j \in 1..(i - 1) : RecKey(recs[j]) # RecKey(recs[i]))
    IN [k \in 1..Len(firsts) |-> recs[firsts[k]]]

merge_recommendations_move_last(recs) ==
    LET lasts == SelectSeq([i \in 1..Len(recs) |-> i],
                           LAMBDA i : \A j \in (i + 1)..Len(recs) : RecKey(recs[j]) # RecKey(recs[i]))
    IN [k \in 1..Len(lasts) |-> recs[lasts[k]]]

\* the dict comprehension over content_recs + behavior_recs, as list(values())
merge_recommendations(recs) == MergeByKey(<<>>, recs)

RECURSIVE Enrich(_)
\* the weak concepts that have a concept-table row, with its level
Enrich(weak_rows) ==
    IF weak_rows = <<>> THEN <<>>
    ELSE LET info == SelectSeq(ConceptTable,
                               LAMBDA c : c.concept_id = Head(weak_rows).concept_id)
         IN (IF info = <<>> THEN <<>>
             ELSE <<[concept_id |-> Head(weak_rows).concept_id,
                     concept_name |-> Head(weak_rows).concept_name,
                     mastery_score |-> Head(weak_rows).mastery_score,
                     level |-> info[1].level,
                     prerequisite_id |-> info[1].prerequisite_id]>>)
            \o Enrich(Tail(weak_rows))

RECURSIVE DedupPath(_, _)
DedupPath(enriched, visited) ==
    IF enriched = <<>> THEN <<>>
    ELSE IF Head(enriched).concept_id \in visited THEN DedupPath(Tail(enriched), visited)
    ELSE <<[type |-> "main", concept_id |-> Head(enriched).concept_id,
            concept_name |-> Head(enriched).concept_name,
            current_mastery |-> Head(enriched).mastery_score,
            target_mastery |-> TargetMastery]>>
         \o DedupPath(Tail(enriched), visited \cup {Head(enriched).concept_id})

path_sort_keys_score_only(enriched) ==
    [i \in 1..Len(enriched) |-> <<enriched[i].mastery_score>>]

\* key=lambda x: (x["level"], x["mastery_score"])
path_sort_keys(enriched) ==
    [i \in 1..Len(enriched) |-> <<enriched[i].level, enriched[i].mastery_score>>]

create_learning_path(weak_rows) ==
    LET enriched == Enrich(weak_rows)
        sorted == SortByKeys(enriched, path_sort_keys(enriched))
    IN DedupPath(sorted, {})

schedule_input_five(recs) == Prefix(recs, RecommendationCap)

schedule_input_all(recs) == recs

\* recommendations[:7]
schedule_input(recs) == Prefix(recs, ScheduleCap)

\* schedule[days[i % 7]].append(...) for the first seven recommendations
create_study_schedule(recs) ==
    LET first == schedule_input(recs)
    IN [d \in 1..Len(Days) |->
          LET mine == SelectSeq([i \in 1..Len(first) |-> i],
                                LAMBDA i : ((i - 1) % Len(Days)) + 1 = d)
          IN [k \in 1..Len(mine) |->
                [concept |-> first[mine[k]].concept_name,
                 activity |-> first[mine[k]].resource_type,
                 duration |-> first[mine[k]].duration_minutes,
                 resource |-> first[mine[k]].resource_name]]]

NoPlan == [student_id |-> 0, learning_style |-> "", weak_concepts_count |-> 0,
           learning_path |-> <<>>, recommendations |-> <<>>, study_schedule |-> <<>>]

learning_style_rows_default(student_id) ==
    LET hit == SelectSeq(StudentsTable, LAMBDA r : r.student_id = student_id)
    IN IF hit = <<>> THEN <<[student_id |-> student_id, learning_style |-> "default"]>>
       ELSE hit

\* self.students[self.students["student_id"] == student_id]
learning_style_rows(student_id) ==
    SelectSeq(StudentsTable, LAMBDA r : r.student_id = student_id)

\* generate_personalized_plan: the error it propagates, or the plan
generate_personalized_plan(features, student_id, best) ==
    LET weak == get_weak_concepts(student_id, features)
        similar == find_similar_students(student_id, DefaultTopK, -1)
        peers == analyze_peer_patterns(student_id, DefaultTopK, DefaultThreshold)
        content == get_content_based_recommendations(weak.rows, ContentTopN)
        behavior == get_behavior_based_recommendations(features, student_id,
                                                       peers.patterns, best)
        merged == merge_recommendations(content \o behavior)
        style == learning_style_rows(student_id)
        failed(error) == [outcome |-> error, plan |-> NoPlan, weak_in |-> <<>>,
                          patterns |-> <<>>, content |-> <<>>, behavior |-> <<>>,
                          merged |-> <<>>]
    IN IF similar.outcome # "ok" THEN failed(similar.outcome)
       ELSE IF weak.is_none THEN failed("AttributeError")
       ELSE IF style = <<>> THEN failed("NoLearningStyle")
       ELSE [outcome |-> "ok",
             weak_in |-> weak.rows, patterns |-> peers.patterns,
             content |-> content, behavior |-> behavior, merged |-> merged,
             plan |-> [student_id |-> student_id,
                       learning_style |-> style[1].learning_style,
                       weak_concepts_count |-> Len(weak.rows),
                       learning_path |-> create_learning_path(weak.rows),
                       recommendations |-> Prefix(merged, RecommendationCap),
                       study_schedule |-> create_study_schedule(merged)]]

\* ---------------------------------------------------------- preparation
\* One more (student, concept) group leaves the groupby/agg.
Aggregate ==
    /\ phase = "aggregating"
    /\ Len(student_features) < MaxRows
    /\ \E a \in AccuracyGrid, t \in TimeGrid, n \in AttemptGrid :
          student_features' = Append(student_features,
              [student_id |-> GroupKey(Len(student_features) + 1).student_id,
               concept_id |-> GroupKey(Len(student_features) + 1).concept_id,
               accuracy |-> a, avg_time_taken |-> t, avg_attempts |-> n,
               mastery_score |-> -1, is_weak_concept |-> FALSE,
               mastery_level |-> "unset"])
    /\ UNCHANGED <<phase, student_vectors, similarity_matrix, matrix_source, ret>>

\* prepare_data steps 5 and 6: the two derived columns, for every row.
PrepareData ==
    /\ phase = "aggregating"
    /\ student_features' =
          [i \in 1..Len(student_features) |->
              [student_features[i] EXCEPT
                  !.mastery_score = calculate_mastery_score(student_features[i]),
                  !.is_weak_concept =
                      is_weak_concept(calculate_mastery_score(student_features[i]))]]
    /\ phase' = "prepared"
    /\ UNCHANGED <<student_vectors, similarity_matrix, matrix_source, ret>>

\* analyze_concept_mastery: an empty table is returned as it is.
AnalyzeConceptMastery ==
    /\ phase = "prepared"
    /\ student_features' =
          [i \in 1..Len(student_features) |->
              [student_features[i] EXCEPT
                  !.mastery_level = mastery_level(student_features[i].mastery_score)]]
    /\ phase' = "analyzed"
    /\ UNCHANGED <<student_vectors, similarity_matrix, matrix_source, ret>>

\* classify_concept_mastery on the analysed table (main.py:56); with a fallback
\* or an early return the split and the model are never made.
ClassifyConceptMastery ==
    /\ phase = "analyzed"
    /\ \E test \in TestSplits(Len(student_features)),
          proba \in [1..Len(student_features) -> ProbabilityGrid] :
          LET got == classify_concept_mastery(student_features, test, proba)
          IN /\ student_features' = got.features
             /\ ret' = [NoRet EXCEPT !.op = "classify_concept_mastery",
                                     !.outcome = got.outcome,
                                     !.trained = got.trained, !.score = got.score]
    /\ phase' = "classified"
    /\ UNCHANGED <<student_vectors, similarity_matrix, matrix_source>>

InitPrep ==
    /\ phase = "aggregating"
    /\ student_features = <<>>
    /\ student_vectors = NoneVectors
    /\ similarity_matrix = NoneMatrix
    /\ matrix_source = NoneVectors
    /\ ret = NoRet

NextPrep == Aggregate \/ PrepareData \/ AnalyzeConceptMastery \/ ClassifyConceptMastery

SpecPrep == InitPrep /\ [][NextPrep]_vars

\* The classifier alone, on an analysed table of up to MaxSamples rows.
InitClassify ==
    /\ phase = "analyzed"
    /\ student_features \in ClassifierTables
    /\ student_vectors = NoneVectors
    /\ similarity_matrix = NoneMatrix
    /\ matrix_source = NoneVectors
    /\ ret = NoRet

NextClassify == ClassifyConceptMastery

SpecClassify == InitClassify /\ [][NextClassify]_vars

\* ------------------------------------------------------ similarity engine
\* The program is single-threaded: a call is made when the previous one returned.
Idle == ret.op = "none"

\* create_student_vectors(df, all_concepts) for every data frame
VectorTables == {pivot_table(df, AllConcepts) : df \in DataFrames}

CreateStudentVectors ==
    /\ Idle
    /\ student_vectors' \in VectorTables
    /\ ret' = [NoRet EXCEPT !.op = "create_student_vectors", !.outcome = "ok"]
    /\ UNCHANGED <<phase, student_features, similarity_matrix, matrix_source>>

ComputeSimilarity ==
    /\ Idle
    /\ IF ComputeFails
       THEN /\ ret' = [NoRet EXCEPT !.op = "compute_similarity",
                                    !.outcome = "Uninitialized"]
            /\ UNCHANGED <<similarity_matrix, matrix_source>>
       ELSE /\ similarity_matrix' =
                  [present |-> TRUE, rows |-> cosine_similarity(student_vectors.values)]
            /\ matrix_source' = student_vectors
            /\ ret' = [NoRet EXCEPT !.op = "compute_similarity", !.outcome = "ok"]
    /\ UNCHANGED <<phase, student_features, student_vectors>>

\* The (top_k, top_n) of a peer query: top_n is not given, or given next to the
\* smallest or the largest top_k.
FindArgs ==
    {<<top_k, -1>> : top_k \in 0..MaxTopK} \cup {<<0, 1>>, <<MaxTopK, 1>>}

FindSimilarStudents ==
    /\ Idle
    /\ \E sid \in QueryIds, args \in FindArgs :
          LET found == find_similar_students(sid, args[1], args[2])
          IN ret' = [NoRet EXCEPT !.op = "find_similar_students", !.sid = sid,
                                  !.top_k = args[1], !.top_n = args[2],
                                  !.outcome = found.outcome, !.peers = found.peers]
    /\ LazyCompute
    /\ UNCHANGED <<phase, student_features, student_vectors>>

\* The (top_k, mastery_threshold) of analyze_peer_patterns: the default
\* threshold with every top_k, a threshold of 80 with the largest.
AnalyzeArgs ==
    {<<top_k, DefaultThreshold>> : top_k \in 0..MaxTopK} \cup {<<MaxTopK, 80 * TENTH>>}

AnalyzePeerPatterns ==
    /\ Idle
    /\ \E sid \in QueryIds, args \in AnalyzeArgs :
          LET got == analyze_peer_patterns(sid, args[1], args[2])
          IN ret' = [NoRet EXCEPT !.op = "analyze_peer_patterns", !.sid = sid,
                                  !.top_k = args[1], !.threshold = args[2],
                                  !.outcome = got.outcome, !.patterns = got.patterns]
    /\ LazyCompute
    /\ UNCHANGED <<phase, student_features, student_vectors>>

\* get_weak_concepts(student_id, student_features), called on the analyzer
GetWeakConcepts ==
    /\ Idle
    /\ \E sid \in QueryIds :
          ret' = [NoRet EXCEPT !.op = "get_weak_concepts", !.sid = sid,
                               !.outcome = "ok",
                               !.weak = get_weak_concepts(sid, student_features)]
    /\ UNCHANGED <<phase, student_features, student_vectors, similarity_matrix,
                   matrix_source>>

\* generate_personalized_plan(student_id); the peer query inside it may fill the
\* similarity cache, also when a later step raises
GeneratePersonalizedPlan ==
    /\ Idle
    /\ \E sid \in QueryIds, best \in BestChoices :
          LET got == generate_personalized_plan(student_features, sid, best)
          IN ret' = [NoRet EXCEPT !.op = "generate_personalized_plan", !.sid = sid,
                                  !.top_n = ContentTopN,
                                  !.outcome = got.outcome, !.plan = got.plan,
                                  !.weak_in = got.weak_in, !.patterns = got.patterns,
                                  !.lookups = [i \in 1..Len(got.weak_in) |->
                                      lookup_of(got.weak_in[i].concept_id,
                                                got.weak_in[i].concept_name)],
                                  !.content = got.content, !.behavior = got.behavior,
                                  !.merged = got.merged, !.scheduled_from = got.merged]
    /\ LazyCompute
    /\ UNCHANGED <<phase, student_features, student_vectors>>

\* Tables passed as weak_concepts to the public methods of the engine: the weak
\* rows of a student, rows of every level, all rows of a student, a row whose name
\* cell is blank in front of all rows of a student, and the weak rows of two
\* students one after the other.
LowProfile == (2 :> 300 @@ 4 :> 200 @@ 5 :> 450)
BlankRow == [student_id |-> 1, concept_id |-> OrphanConcept + 1, concept_name |-> <<" ">>,
             mastery_score |-> 300, mastery_level |-> mastery_level(300)]
WeakOf(profile) == get_weak_concepts(1, FeatureRowsOf(1, profile)).rows
\* rows of three mastery levels: Struggling, Beginner and Advanced
LevelsTable ==
    SelectSeq(FeatureRowsOf(1, MixedProfile), LAMBDA r : r.concept_id \in {2, 6})
        \o SelectSeq(FeatureRowsOf(1, StrongProfile), LAMBDA r : r.concept_id = 4)
WeakTables ==
    { <<>>, WeakOf(MixedProfile), WeakOf(StrongProfile),
      LevelsTable, FeatureRowsOf(1, StrongProfile),
      WeakOf(LowProfile), <<BlankRow>> \o FeatureRowsOf(1, MixedProfile),
      WeakOf(MixedProfile) \o WeakOf(LowProfile) }

\* get_content_based_recommendations(student_id, weak_concepts, top_n)
GetContentBasedRecommendations ==
    /\ Idle
    /\ \E weak \in WeakTables, top_n \in 0..ContentTopN :
          ret' = [NoRet EXCEPT !.op = "get_content_based_recommendations",
                               !.outcome = "ok", !.top_n = top_n, !.weak_in = weak,
                               !.lookups = [i \in 1..Len(weak) |->
                                   lookup_of(weak[i].concept_id, weak[i].concept_name)],
                               !.content = get_content_based_recommendations(weak, top_n)]
    /\ UNCHANGED <<phase, student_features, student_vectors, similarity_matrix,
                   matrix_source>>

\* create_learning_path(student_id, weak_concepts)
CreateLearningPath ==
    /\ Idle
    /\ \E weak \in WeakTables :
          ret' = [NoRet EXCEPT !.op = "create_learning_path", !.outcome = "ok",
                               !.weak_in = weak, !.path = create_learning_path(weak)]
    /\ UNCHANGED <<phase, student_features, student_vectors, similarity_matrix,
                   matrix_source>>

\* The lists create_study_schedule is called with: the first n of the twelve
\* content recommendations of a student.
ScheduleInputs ==
    LET all == content_all(WeakOf(MixedProfile), ContentTopN)
    IN {Prefix(all, n) : n \in 0..Len(all)}

\* create_study_schedule(recommendations, learning_style)
CreateStudySchedule ==
    /\ Idle
    /\ \E recs \in ScheduleInputs :
          ret' = [NoRet EXCEPT !.op = "create_study_schedule", !.outcome = "ok",
                               !.scheduled_from = recs,
                               !.schedule = create_study_schedule(recs)]
    /\ UNCHANGED <<phase, student_features, student_vectors, similarity_matrix,
                   matrix_source>>

\* The caller takes the return value (or the error); the next call can be made.
Return ==
    /\ ~Idle
    /\ ret' = NoRet
    /\ UNCHANGED <<phase, student_features, student_vectors, similarity_matrix,
                   matrix_source>>

\* main.py:108 and 127-134: a SimilarityEngine without vectors, and a
\* RecommendationEngine holding a feature table.
Init ==
    /\ phase = "engine"
    /\ student_features \in FeatureTables
    /\ student_vectors = NoneVectors
    /\ similarity_matrix = NoneMatrix
    /\ matrix_source = NoneVectors
    /\ ret = NoRet

Next ==
    \/ CreateStudentVectors
    \/ ComputeSimilarity
    \/ FindSimilarStudents
    \/ AnalyzePeerPatterns
    \/ GetWeakConcepts
    \/ GeneratePersonalizedPlan
    \/ Return

Spec == Init /\ [][Next]_vars

\* The methods of the RecommendationEngine that read the catalog and the concept
\* table only, called on their own.
NextRecommend ==
    \/ GetContentBasedRecommendations
    \/ CreateLearningPath
    \/ CreateStudySchedule
    \/ Return

SpecRecommend == Init /\ [][NextRecommend]_vars

\* ================================================================ claims
VectorsUnusable == ~student_vectors.built \/ IsEmpty(student_vectors)
Prepared == phase \in {"prepared", "analyzed"}
Rows == 1..Len(student_features)
LevelRank(level) ==
    CASE level = "Struggling" -> 0 [] level = "Beginner" -> 1
      [] level = "Intermediate" -> 2 [] level = "Advanced" -> 3

\* C1: every mastery_score prepare_data computes lies in [0, 100] (0..1000
\* tenths), for accuracy in [0,1], avg_time_taken >= 0 and avg_attempts >= 0.
C1_ScoreInRange ==
    Prepared =>
        \A i \in Rows : /\ student_features[i].mastery_score >= 0
                        /\ student_features[i].mastery_score <= 100 * TENTH

\* the floor acted on one row, and another row scores exactly 100
C1_Witness ==
    /\ Prepared
    /\ \E i, j \in Rows :
          /\ student_features[i].accuracy = 0
          /\ student_features[i].avg_time_taken > TimeFree
          /\ student_features[i].mastery_score = 0
          /\ student_features[j].mastery_score = 100 * TENTH

\* The score as the specification words it, in tenths of a point.
C2_SpecScore(accuracy, time, attempts) ==
    LET tp == IF time > 60 THEN Min(100, time - 60) ELSE 0
        ap == IF attempts > 15 THEN Min(50, 2 * (attempts - 10)) ELSE 0
        raw == 10 * accuracy - tp - ap
    IN IF raw < 0 THEN 0 ELSE raw

\* C2: mastery_score = max(0, accuracy*100 - time_penalty - attempt_penalty) with
\* the two capped penalties; (0.9, 40 s, 1.0) scores 90 and is not weak,
\* (0.5, 90 s, 2.0) scores 45; is_weak_concept holds exactly when the score < 70.
C2_ScoreFormula ==
    Prepared =>
        \A i \in Rows :
            LET r == student_features[i]
            IN /\ r.mastery_score = C2_SpecScore(r.accuracy, r.avg_time_taken, r.avg_attempts)
               /\ r.is_weak_concept <=> (r.mastery_score < 700)
               /\ (r.accuracy = 90 /\ r.avg_time_taken = 40 /\ r.avg_attempts = 10)
                     => (r.mastery_score = 900 /\ ~r.is_weak_concept)
               /\ (r.accuracy = 50 /\ r.avg_time_taken = 90 /\ r.avg_attempts = 20)
                     => (r.mastery_score = 450 /\ r.is_weak_concept)
               /\ phase = "analyzed" =>
                     /\ (r.accuracy = 90 /\ r.avg_time_taken = 40 /\ r.avg_attempts = 10)
                           => r.mastery_level = "Advanced"
                     /\ (r.accuracy = 50 /\ r.avg_time_taken = 90 /\ r.avg_attempts = 20)
                           => r.mastery_level = "Struggling"

\* both scenarios in one analysed table
C2_Witness ==
    /\ phase = "analyzed"
    /\ \E i, j \in Rows :
          /\ student_features[i].accuracy = 90
          /\ student_features[i].avg_time_taken = 40
          /\ student_features[i].avg_attempts = 10
          /\ student_features[j].accuracy = 50
          /\ student_features[j].avg_time_taken = 90
          /\ student_features[j].avg_attempts = 20

\* C3: mastery_level is the step function of mastery_score with boundaries
\* 50 / 70 / 85, each inclusive below, and a higher score never has a lower level.
C3_LevelStep ==
    phase = "analyzed" =>
        /\ \A i \in Rows :
              LET r == student_features[i]
              IN /\ r.mastery_level = "Advanced" <=> r.mastery_score >= 850
                 /\ r.mastery_level = "Intermediate"
                       <=> (r.mastery_score >= 700 /\ r.mastery_score < 850)
                 /\ r.mastery_level = "Beginner"
                       <=> (r.mastery_score >= 500 /\ r.mastery_score < 700)
                 /\ r.mastery_level = "Struggling" <=> r.mastery_score < 500
        /\ \A i, j \in Rows :
              student_features[i].mastery_score <= student_features[j].mastery_score
                 => LevelRank(student_features[i].mastery_level)
                       <= LevelRank(student_features[j].mastery_level)

\* two rows on the boundaries 70 and 50 exactly
C3_Witness ==
    /\ phase = "analyzed"
    /\ \E i, j \in Rows :
          /\ student_features[i].mastery_score = 700
          /\ student_features[i].mastery_level = "Intermediate"
          /\ student_features[j].mastery_score = 500
          /\ student_features[j].mastery_level = "Beginner"

FindReturned ==
    ret.op = "find_similar_students" /\ ret.outcome = "ok" /\ ret.top_n = -1

\* C4: find_similar_students(student_id, top_k) returns at most top_k pairs, and
\* never the queried student_id.
C4_AtMostTopKNoSelf ==
    FindReturned =>
        /\ Len(ret.peers) <= ret.top_k
        /\ \A i \in 1..Len(ret.peers) : ret.peers[i].peer_id # ret.sid

\* top_k cut the list: three students, top_k = 1, one peer returned
C4_Witness ==
    /\ FindReturned
    /\ Len(student_vectors.index) = 3
    /\ ret.top_k = 1
    /\ Len(ret.peers) = 1

\* C5 as stated: consecutive results have strictly decreasing similarity.
C5_StrictlyDescending ==
    ret.op = "find_similar_students" =>
        \A i \in 1..(Len(ret.peers) - 1) :
            SimLess(ret.peers[i + 1].similarity, ret.peers[i].similarity)

\* C5, amended: the results are sorted by similarity descending, ties allowed: no
\* result has a smaller similarity than the one after it, and results of equal
\* similarity stay in row order (the index is sorted by student_id).
C5_Descending ==
    ret.op = "find_similar_students" =>
        \A i \in 1..(Len(ret.peers) - 1) :
            /\ ~SimLess(ret.peers[i].similarity, ret.peers[i + 1].similarity)
            /\ SimEq(ret.peers[i].similarity, ret.peers[i + 1].similarity)
                  => ret.peers[i].peer_id < ret.peers[i + 1].peer_id

\* the sort moved a later row in front of an earlier one
C5_Witness ==
    /\ ret.op = "find_similar_students"
    /\ Len(ret.peers) = 2
    /\ ret.peers[1].peer_id > ret.peers[2].peer_id
    /\ SimLess(ret.peers[2].similarity, ret.peers[1].similarity)

\* C6: with N students in the records, create_student_vectors, compute_similarity,
\* find_similar_students(s, N-1) returns exactly N-1 peers, none repeated, for
\* every student s of the records.
C6_RoundTrip ==
    ( /\ ret.op = "find_similar_students"
      /\ ret.top_n = -1
      /\ matrix_source = student_vectors
      /\ \E i \in 1..Len(student_vectors.index) : student_vectors.index[i] = ret.sid
      /\ ret.top_k = Len(student_vectors.index) - 1 )
    => /\ ret.outcome = "ok"
       /\ Len(ret.peers) = Len(student_vectors.index) - 1
       /\ \A i, j \in 1..Len(ret.peers) :
             ret.peers[i].peer_id = ret.peers[j].peer_id => i = j

\* three students, two of them with the same vector, both peers returned
C6_Witness ==
    /\ ret.op = "find_similar_students"
    /\ matrix_source = student_vectors
    /\ Len(student_vectors.index) = 3
    /\ ret.top_k = 2
    /\ Len(ret.peers) = 2
    /\ student_vectors.values[1] = student_vectors.values[2]

\* C7 as stated: with vectors never built or empty, compute_similarity fails with
\* the initialization error, so does every peer query that triggers it, and
\* similarity_matrix is absent afterwards; no peer list is returned.
C7_LeavesMatrixAbsent ==
    (ret.op \in {"compute_similarity", "find_similar_students", "analyze_peer_patterns"}
        /\ VectorsUnusable)
    => /\ ret.outcome # "ok"
       /\ ret.peers = <<>> /\ ret.patterns = <<>>
       /\ ret.op = "compute_similarity" => ret.outcome = "Uninitialized"
       /\ ret.outcome = "Uninitialized" => ~similarity_matrix.present

\* C7, amended: the call fails and leaves similarity_matrix as it was (absent when
\* none was computed before, the cached one otherwise); compute_similarity always
\* fails with the initialization error, a peer query does when no matrix is
\* cached, and no peer list is returned.
C7_LeavesMatrixUnchanged ==
    [][ (ret'.op \in {"compute_similarity", "find_similar_students",
                      "analyze_peer_patterns"}
            /\ VectorsUnusable')
        => /\ similarity_matrix' = similarity_matrix
           /\ ret'.outcome # "ok"
           /\ ret'.peers = <<>> /\ ret'.patterns = <<>>
           /\ (ret'.op = "compute_similarity" \/ ~similarity_matrix.present)
                 => ret'.outcome = "Uninitialized" ]_vars

\* compute_similarity failed on an empty vector table while a matrix is cached
C7_Witness ==
    /\ ret.op = "compute_similarity"
    /\ ret.outcome = "Uninitialized"
    /\ student_vectors.built
    /\ similarity_matrix.present

PeerOps == {"find_similar_students", "analyze_peer_patterns", "generate_personalized_plan"}
InIndex(sid) == \E i \in 1..Len(student_vectors.index) : student_vectors.index[i] = sid

\* C8 as stated: once vectors are built, a peer query or a plan for a student_id
\* absent from the vector index fails with the not-found error.
C8_AbsentIsNotFound ==
    (ret.op \in PeerOps /\ student_vectors.built /\ ~InIndex(ret.sid))
    => ret.outcome = "NotFound"

\* C8, amended: once vectors are built, find_similar_students,
\* analyze_peer_patterns and generate_personalized_plan fail for every student_id
\* absent from the vector index and leave student_vectors unchanged; the error is
\* the not-found error when the vector table is non-empty or a similarity matrix
\* is cached, and the initialization error when it is empty with nothing cached.
C8_AbsentFails ==
    [][ (ret'.op \in PeerOps /\ student_vectors.built /\ ~InIndex(ret'.sid))
        => /\ student_vectors' = student_vectors
           /\ ret'.peers = <<>> /\ ret'.patterns = <<>> /\ ret'.plan = NoPlan
           /\ IF ~IsEmpty(student_vectors) \/ similarity_matrix.present
              THEN ret'.outcome = "NotFound"
              ELSE ret'.outcome = "Uninitialized" ]_vars

\* a plan was asked for a student who is not in a non-empty vector index
C8_Witness ==
    /\ ret.op = "generate_personalized_plan"
    /\ ret.outcome = "NotFound"
    /\ Len(student_vectors.index) = 2

HasStyleRow(sid) == \E i \in 1..Len(StudentsTable) : StudentsTable[i].student_id = sid
HasFeatureRows(sid) == \E i \in 1..Len(student_features) : student_features[i].student_id = sid
WeakRowCount(sid) ==
    Cardinality({i \in 1..Len(student_features) :
        /\ student_features[i].student_id = sid
        /\ student_features[i].mastery_score < 700})

\* C9 as stated: generate_personalized_plan fails exactly when the students table
\* has no learning_style row for student_id, and returns a full plan otherwise.
\* Stated for an engine set up as main() does: vectors built for exactly the
\* students of the feature table, and the matrix computed from them.
C9_FailsIffNoStyle ==
    ( /\ ret.op = "generate_personalized_plan"
      /\ student_vectors.built
      /\ matrix_source = student_vectors
      /\ \A sid \in QueryIds : InIndex(sid) <=> HasFeatureRows(sid) )
    => (ret.outcome = "ok" <=> HasStyleRow(ret.sid))

\* After the call the peer query of the plan has succeeded exactly when a matrix
\* is cached, the student is in the vector index and the matrix fits the index.
PeerQuerySucceeded(sid) ==
    /\ similarity_matrix.present
    /\ InIndex(sid)
    /\ Len(similarity_matrix.rows) <= Len(student_vectors.index)
    /\ \A i \in 1..Len(student_vectors.index) :
          student_vectors.index[i] = sid => i <= Len(similarity_matrix.rows)

\* C9, amended: generate_personalized_plan propagates an error and returns no plan
\* whenever the students table has no learning_style row for student_id, and also
\* whenever its peer query fails (vectors unbuilt or empty, student_id not in the
\* vector index, cached matrix not fitting the vectors) or the feature table has
\* no row of the student; in every other case it returns a plan with student_id,
\* learning_style, weak_concepts_count, learning_path, recommendations and
\* study_schedule.
C9_PlanOrError ==
    ret.op = "generate_personalized_plan" =>
        /\ ret.outcome = "ok" <=>
              (HasStyleRow(ret.sid) /\ HasFeatureRows(ret.sid) /\ PeerQuerySucceeded(ret.sid))
        /\ ret.outcome # "ok" => ret.plan = NoPlan
        /\ ret.outcome = "ok" =>
              /\ ret.plan.student_id = ret.sid
              /\ \E i \in 1..Len(StudentsTable) :
                    /\ StudentsTable[i].student_id = ret.sid
                    /\ StudentsTable[i].learning_style = ret.plan.learning_style
              /\ ret.plan.weak_concepts_count = WeakRowCount(ret.sid)
              /\ Len(ret.plan.learning_path) <= ret.plan.weak_concepts_count
              /\ Len(ret.plan.recommendations) <= 5
              /\ Len(ret.plan.study_schedule) = 7

\* a full plan was returned: four weak concepts, five recommendations
C9_Witness ==
    /\ ret.op = "generate_personalized_plan"
    /\ ret.outcome = "ok"
    /\ ret.plan.weak_concepts_count = 4
    /\ Len(ret.plan.recommendations) = 5
    /\ Len(ret.plan.learning_path) = 4

\* C10: get_weak_concepts returns an empty result, never a missing value, when
\* the student has no records or the feature table is empty.
C10_EmptyNotNone ==
    ret.op = "get_weak_concepts" =>
        /\ ~ret.weak.is_none
        /\ ~HasFeatureRows(ret.sid) => ret.weak.rows = <<>>

ClassifyReturned == ret.op = "classify_concept_mastery"
HasPrediction(row) == {"predicted_mastery", "mastery_probability"} \subseteq DOMAIN row

\* C11: classify_concept_mastery on a feature table of fewer than 5 rows skips
\* training, returns accuracy score 0.0 and sets predicted_mastery of every row to
\* the rule label (1 iff mastery_score >= 70) and mastery_probability to the same
\* value as a float; the other columns and the rows stay as they were.
C11_FallbackBelowFive ==
    [][ ( /\ ret'.op = "classify_concept_mastery"
          /\ Len(student_features) < 5
          /\ HasRequiredColumns(student_features) )
        => /\ ret'.outcome = "ok"
           /\ ~ret'.trained
           /\ ret'.score = 0
           /\ Len(student_features') = Len(student_features)
           /\ \A i \in 1..Len(student_features) :
                 LET old == student_features[i]
                     new == student_features'[i]
                 IN /\ HasPrediction(new)
                    /\ new.predicted_mastery = 1 <=> old.mastery_score >= 700
                    /\ new.predicted_mastery = 0 <=> old.mastery_score < 700
                    /\ new.mastery_probability = 100 * new.predicted_mastery
                    /\ \A c \in DOMAIN old : new[c] = old[c] ]_vars

\* the 3-row scenario: scores 90, 45 and exactly 70, labels 1, 0, 1, score 0.0
C11_Witness ==
    /\ ClassifyReturned
    /\ Len(student_features) = 3
    /\ ~ret.trained /\ ret.score = 0
    /\ student_features[1].mastery_score = 900 /\ student_features[1].predicted_mastery = 1
    /\ student_features[2].mastery_score = 450 /\ student_features[2].predicted_mastery = 0
    /\ student_features[3].mastery_score = 700 /\ student_features[3].predicted_mastery = 1
    /\ student_features[3].mastery_probability = 100

PlanReturned == ret.op = "generate_personalized_plan" /\ ret.outcome = "ok"
KeyOf(r) == <<r.concept_id, r.resource_id>>
KeysOf(recs) == {KeyOf(recs[i]) : i \in 1..Len(recs)}
FromPeer(r) == r.reason.kind = "peer" /\ r.reason.peer_id # 0

\* C12: in generate_personalized_plan the merged recommendations hold at most one
\* item per (concept_id, resource_id) key, every proposed key is kept, and where a
\* content-based and a behavior-based item share a key the surviving item is the
\* behavior-based one, whose reason cites the peer.
C12_OnePerKeyBehaviorWins ==
    PlanReturned =>
        /\ \A i, j \in 1..Len(ret.merged) :
              KeyOf(ret.merged[i]) = KeyOf(ret.merged[j]) => i = j
        /\ KeysOf(ret.merged) = KeysOf(ret.content) \cup KeysOf(ret.behavior)
        /\ \A k \in 1..Len(ret.merged) :
              IF KeyOf(ret.merged[k]) \in KeysOf(ret.behavior)
              THEN /\ FromPeer(ret.merged[k])
                   /\ \E j \in 1..Len(ret.behavior) : ret.merged[k] = ret.behavior[j]
              ELSE \E i \in 1..Len(ret.content) : ret.merged[k] = ret.content[i]

\* a content-based and a behavior-based item proposed the same resource
C12_Witness ==
    /\ PlanReturned
    /\ \E i \in 1..Len(ret.content), j \in 1..Len(ret.behavior), k \in 1..Len(ret.merged) :
          /\ KeyOf(ret.content[i]) = KeyOf(ret.behavior[j])
          /\ ret.content[i].reason.kind = "low_mastery"
          /\ ret.merged[k] = ret.behavior[j]

\* the position of the first proposal of a key in content_recs + behavior_recs
FirstProposal(key) ==
    LET all == ret.content \o ret.behavior
    IN CHOOSE i \in 1..Len(all) :
          KeyOf(all[i]) = key /\ \A j \in 1..(i - 1) : KeyOf(all[j]) # key

\* C13: the plan's recommendations are the first 5 entries (all, if fewer) of the
\* merged mapping in insertion order; a key stands where it was first inserted,
\* also when a later entry overwrote its value, so every content-based key comes
\* before every behavior-only key.
C13_FirstFiveInInsertionOrder ==
    PlanReturned =>
        /\ Len(ret.plan.recommendations) = Min(5, Len(ret.merged))
        /\ \A i \in 1..Len(ret.plan.recommendations) :
              ret.plan.recommendations[i] = ret.merged[i]
        /\ \A i, j \in 1..Len(ret.merged) :
              i < j => FirstProposal(KeyOf(ret.merged[i])) < FirstProposal(KeyOf(ret.merged[j]))
        /\ \A i, j \in 1..Len(ret.merged) :
              ( /\ KeyOf(ret.merged[i]) \in KeysOf(ret.content)
                /\ KeyOf(ret.merged[j]) \notin KeysOf(ret.content) ) => i < j

\* an overwritten key kept its place among the first five, in front of content-
\* based items, and behavior-only keys follow the tenth content-based item
C13_Witness ==
    /\ PlanReturned
    /\ Len(ret.merged) > 10
    /\ Len(ret.plan.recommendations) = 5
    /\ \E i \in 1..4 :
          /\ FromPeer(ret.plan.recommendations[i])
          /\ ~FromPeer(ret.plan.recommendations[i + 1])
    /\ FromPeer(ret.merged[11])

ScheduleReturned == ret.op = "create_study_schedule" \/ PlanReturned
ScheduleOf == IF ret.op = "create_study_schedule" THEN ret.schedule
              ELSE ret.plan.study_schedule

\* C14: create_study_schedule returns the seven weekday keys Monday..Sunday; the
\* i-th (0-based) of the first 7 input recommendations is the one entry of day
\* i mod 7, with its concept, activity, duration and resource; a day beyond the
\* number of recommendations is an empty list, and a recommendation past the 7th
\* is not scheduled.
C14_RoundRobinWeek ==
    ScheduleReturned =>
        /\ Days = <<"Monday", "Tuesday", "Wednesday", "Thursday", "Friday",
                    "Saturday", "Sunday">>
        /\ Len(ScheduleOf) = 7
        /\ \A d \in 1..7 :
              /\ Len(ScheduleOf[d]) <= 1
              /\ d > Len(ret.scheduled_from) => ScheduleOf[d] = <<>>
        /\ \A i \in 0..(Len(ret.scheduled_from) - 1) :
              IF i < 7
              THEN ScheduleOf[(i % 7) + 1] =
                      << [concept |-> ret.scheduled_from[i + 1].concept_name,
                          activity |-> ret.scheduled_from[i + 1].resource_type,
                          duration |-> ret.scheduled_from[i + 1].duration_minutes,
                          resource |-> ret.scheduled_from[i + 1].resource_name] >>
              ELSE \A d \in 1..7 : \A k \in 1..Len(ScheduleOf[d]) :
                      ScheduleOf[d][k].resource # ret.scheduled_from[i + 1].resource_name

\* nine recommendations were passed: every day has one entry, Sunday the seventh
C14_Witness ==
    /\ ret.op = "create_study_schedule"
    /\ Len(ret.scheduled_from) = 9
    /\ \A d \in 1..7 : Len(ret.schedule[d]) = 1
    /\ ret.schedule[7][1].resource = ret.scheduled_from[7].resource_name
    /\ ret.scheduled_from[8].resource_name # ret.scheduled_from[1].resource_name

PathReturned == ret.op = "create_learning_path" \/ PlanReturned
PathOf == IF ret.op = "create_learning_path" THEN ret.path ELSE ret.plan.learning_path
HasMetadata(concept_id) ==
    \E i \in 1..Len(ConceptTable) : ConceptTable[i].concept_id = concept_id
LevelOf(concept_id) ==
    ConceptTable[CHOOSE i \in 1..Len(ConceptTable) :
                     ConceptTable[i].concept_id = concept_id].level

\* C15: the steps of create_learning_path are ordered by (concept level ascending,
\* then mastery_score ascending); a concept_id occurs at most once, with the first
\* of its rows in that order (the lowest mastery_score); a weak concept is in the
\* path exactly when the concept metadata has a row for it; target_mastery is 80
\* on every step.
C15_PathOrder ==
    PathReturned =>
        /\ \A i, j \in 1..Len(PathOf) :
              i < j =>
                 /\ PathOf[i].concept_id # PathOf[j].concept_id
                 /\ LevelOf(PathOf[i].concept_id) <= LevelOf(PathOf[j].concept_id)
                 /\ LevelOf(PathOf[i].concept_id) = LevelOf(PathOf[j].concept_id)
                       => PathOf[i].current_mastery <= PathOf[j].current_mastery
        /\ \A i \in 1..Len(PathOf) :
              /\ PathOf[i].target_mastery = 800
              /\ HasMetadata(PathOf[i].concept_id)
              /\ \E k \in 1..Len(ret.weak_in) :
                    /\ ret.weak_in[k].concept_id = PathOf[i].concept_id
                    /\ ret.weak_in[k].mastery_score = PathOf[i].current_mastery
              /\ \A k \in 1..Len(ret.weak_in) :
                    ret.weak_in[k].concept_id = PathOf[i].concept_id
                       => PathOf[i].current_mastery <= ret.weak_in[k].mastery_score
        /\ \A k \in 1..Len(ret.weak_in) :
              HasMetadata(ret.weak_in[k].concept_id)
                 <=> \E i \in 1..Len(PathOf) :
                        PathOf[i].concept_id = ret.weak_in[k].concept_id

\* seven weak rows with two concepts repeated: five steps, the lower score of a
\* repeated concept kept, and a later level starting with a lower score
C15_Witness ==
    /\ ret.op = "create_learning_path"
    /\ Len(ret.weak_in) = 7
    /\ Len(ret.path) = 5
    /\ \E i \in 1..4 : ret.path[i + 1].current_mastery < ret.path[i].current_mastery
    /\ \E i \in 1..5, k \in 1..7 :
          /\ ret.weak_in[k].concept_id = ret.path[i].concept_id
          /\ ret.weak_in[k].mastery_score > ret.path[i].current_mastery

ContentReturned == ret.op = "get_content_based_recommendations" \/ PlanReturned
\* the input rows an item was made for
RowsOfItem(item) ==
    {k \in 1..Len(ret.weak_in) :
        /\ ret.weak_in[k].concept_id = item.concept_id
        /\ ret.weak_in[k].mastery_score = item.reason.mastery_score}
ItemsOfRow(k) ==
    {i \in 1..Len(ret.content) : k \in RowsOfItem(ret.content[i])}
CatalogOf(concept_id) ==
    {i \in 1..Len(Resources) : Resources[i].concept_id = concept_id}

\* C16: every content-based recommendation has a difficulty fit for the
\* mastery_level of its weak concept: Beginner for a Struggling concept, Beginner
\* or Intermediate for a Beginner concept; for a concept of any other level the
\* difficulty is not filtered: the top-rated resources of the concept are
\* recommended whatever their difficulty.
C16_DifficultyFits ==
    ContentReturned =>
        /\ \A i \in 1..Len(ret.content) :
              /\ RowsOfItem(ret.content[i]) # {}
              /\ \A k \in RowsOfItem(ret.content[i]) :
                    /\ ret.weak_in[k].mastery_level = "Struggling"
                          => ret.content[i].difficulty = "Beginner"
                    /\ ret.weak_in[k].mastery_level = "Beginner"
                          => ret.content[i].difficulty \in {"Beginner", "Intermediate"}
        /\ \A k \in 1..Len(ret.weak_in) :
              ( /\ ret.weak_in[k].mastery_level \notin {"Struggling", "Beginner"}
                /\ Len(ret.content) < 10 )
              => \A r \in CatalogOf(ret.weak_in[k].concept_id) :
                    \/ \E i \in ItemsOfRow(k) :
                          ret.content[i].resource_id = Resources[r].resource_id
                    \/ /\ Cardinality(ItemsOfRow(k)) = ret.top_n
                       /\ \A i \in ItemsOfRow(k) :
                             ret.content[i].rating >= Resources[r].rating

\* one call with a Struggling, a Beginner and an Advanced concept: a resource no
\* other out-rates is left out for the first (Intermediate) and for the second
\* (Advanced), and an Advanced resource is recommended for the third
C16_Witness ==
    /\ ret.op = "get_content_based_recommendations"
    /\ ret.top_n = 3
    /\ \E a, b, c \in 1..Len(ret.weak_in) :
          /\ ret.weak_in[a].mastery_level = "Struggling"
          /\ \E r \in CatalogOf(ret.weak_in[a].concept_id) :
                /\ Resources[r].difficulty = "Intermediate"
                /\ \A i \in ItemsOfRow(a) : ret.content[i].rating <= Resources[r].rating
          /\ ret.weak_in[b].mastery_level = "Beginner"
          /\ \E r \in CatalogOf(ret.weak_in[b].concept_id) :
                /\ Resources[r].difficulty = "Advanced"
                /\ \A i \in ItemsOfRow(b) : ret.content[i].rating < Resources[r].rating
          /\ \E i \in ItemsOfRow(b) : ret.content[i].difficulty = "Intermediate"
          /\ ret.weak_in[c].mastery_level = "Advanced"
          /\ \E i \in ItemsOfRow(c) : ret.content[i].difficulty = "Advanced"

DistinctConcepts(rows) ==
    \A i, j \in 1..Len(rows) : rows[i].concept_id = rows[j].concept_id => i = j
ViewsOf(item) ==
    Resources[CHOOSE r \in 1..Len(Resources) :
                  Resources[r].resource_id = item.resource_id].view_count
\* the catalog rows that fit weak row k: found by the lookup made for the row, of
\* a difficulty its level admits
FittingResources(k) ==
    LET w == ret.weak_in[k]
    IN {r \in 1..Len(Resources) :
          /\ \/ ret.lookups[k] = "concept_id" /\ Resources[r].concept_id = w.concept_id
             \/ ret.lookups[k] = "concept_name"
                   /\ Contains(Resources[r].concept_name, w.concept_name)
          /\ w.mastery_level = "Struggling" => Resources[r].difficulty = "Beginner"
          /\ w.mastery_level = "Beginner"
                => Resources[r].difficulty \in {"Beginner", "Intermediate"}}

\* C17: get_content_based_recommendations returns at most top_n items for a weak
\* concept and at most 10 in all; the concepts come in the order of the rows
\* supplied (ascending mastery_score inside a plan), the items of a concept by
\* rating descending, then view_count descending; the cap of 10 cuts the end of
\* the list, so the concepts supplied last (the least weak) lose their items
\* first.
C17_TopNPerConceptCapTen ==
    (ContentReturned /\ DistinctConcepts(ret.weak_in)) =>
        /\ Len(ret.content) <= 10
        /\ \A k \in 1..Len(ret.weak_in) :
              /\ Cardinality(ItemsOfRow(k)) <= ret.top_n
              /\ Cardinality(ItemsOfRow(k)) <= Cardinality(FittingResources(k))
              /\ Cardinality(ItemsOfRow(k)) < ret.top_n
                    /\ Cardinality(ItemsOfRow(k)) < Cardinality(FittingResources(k))
                 => /\ Len(ret.content) = 10
                    /\ \A later \in (k + 1)..Len(ret.weak_in) : ItemsOfRow(later) = {}
        /\ \A i, j \in 1..Len(ret.content) :
              i < j =>
                 /\ \A a \in RowsOfItem(ret.content[i]), b \in RowsOfItem(ret.content[j]) :
                       a <= b
                 /\ ret.content[i].concept_id = ret.content[j].concept_id
                       => \/ ret.content[i].rating > ret.content[j].rating
                          \/ /\ ret.content[i].rating = ret.content[j].rating
                             /\ ViewsOf(ret.content[i]) >= ViewsOf(ret.content[j])
                 /\ PlanReturned
                       => ret.content[i].reason.mastery_score
                             <= ret.content[j].reason.mastery_score

\* four weak concepts of three fitting resources each: ten items, the least weak
\* concept keeps one, and two items of equal rating stand by views
C17_Witness ==
    /\ ret.op = "get_content_based_recommendations"
    /\ ret.top_n = 3
    /\ Len(ret.weak_in) = 4
    /\ Len(ret.content) = 10
    /\ Cardinality(ItemsOfRow(4)) = 1
    /\ Cardinality(FittingResources(4)) >= 3
    /\ \A k \in 1..3 : ret.weak_in[k].mastery_score <= ret.weak_in[k + 1].mastery_score
    /\ \E i \in 1..9 :
          /\ ret.content[i].concept_id = ret.content[i + 1].concept_id
          /\ ret.content[i].rating = ret.content[i + 1].rating
          /\ ret.content[i].resource_id > ret.content[i + 1].resource_id

NameOfResource(resource_id) ==
    Resources[CHOOSE r \in 1..Len(Resources) :
                  Resources[r].resource_id = resource_id].concept_name
ConceptOfResource(resource_id) ==
    Resources[CHOOSE r \in 1..Len(Resources) :
                  Resources[r].resource_id = resource_id].concept_id
UsableName(name) == name # NoName /\ \E i \in 1..Len(name) : name[i] # " "

\* C18 as stated: the substring match on concept_name is used for a weak concept
\* exactly when no resource matches its concept_id.
C18_NameMatchIffNoIdMatch ==
    ContentReturned =>
        \A k \in 1..Len(ret.weak_in) :
            ret.lookups[k] = "concept_name" <=> CatalogOf(ret.weak_in[k].concept_id) = {}

\* C18, amended: the case-insensitive literal substring match on concept_name is
\* used for a weak concept exactly when no resource matches its concept_id and its
\* concept_name is a string that is not blank; a concept for which neither lookup
\* finds a resource contributes no recommendation, no error is raised, and the
\* weak concepts after it are still processed.
C18_NameMatchGuarded ==
    (ContentReturned /\ DistinctConcepts(ret.weak_in)) =>
        /\ ret.outcome = "ok"
        /\ \A k \in 1..Len(ret.weak_in) :
              LET w == ret.weak_in[k]
              IN /\ ret.lookups[k] = "concept_id" <=> CatalogOf(w.concept_id) # {}
                 /\ ret.lookups[k] = "concept_name"
                       <=> (CatalogOf(w.concept_id) = {} /\ UsableName(w.concept_name))
                 /\ \A i \in ItemsOfRow(k) :
                       IF CatalogOf(w.concept_id) # {}
                       THEN ConceptOfResource(ret.content[i].resource_id) = w.concept_id
                       ELSE /\ UsableName(w.concept_name)
                            /\ Contains(NameOfResource(ret.content[i].resource_id),
                                        w.concept_name)
                 /\ FittingResources(k) = {} => ItemsOfRow(k) = {}
                 /\ (FittingResources(k) # {} /\ Len(ret.content) < 10 /\ ret.top_n > 0)
                       => ItemsOfRow(k) # {}

\* one call: a blank name (no lookup by name), a name that matches no resource,
\* and behind them a concept found by concept_id and one found by name only
C18_Witness ==
    /\ ret.op = "get_content_based_recommendations"
    /\ \E a, b, c, d \in 1..Len(ret.weak_in) :
          /\ a < b /\ b < c /\ b < d
          /\ ret.lookups[a] = "none" /\ ret.weak_in[a].concept_name = <<" ">>
          /\ ret.lookups[b] = "concept_name" /\ FittingResources(b) = {}
          /\ ItemsOfRow(a) = {} /\ ItemsOfRow(b) = {}
          /\ ret.lookups[c] = "concept_id" /\ ItemsOfRow(c) # {}
          /\ ret.lookups[d] = "concept_name" /\ ItemsOfRow(d) # {}
          /\ \E i \in ItemsOfRow(d) :
                ConceptOfResource(ret.content[i].resource_id) # ret.weak_in[d].concept_id

\* the target student already masters the concept: the first feature row of
\* (student, concept) has mastery_score >= 80
AlreadyMastered(sid, concept_id) ==
    \E k \in 1..Len(student_features) :
        /\ student_features[k].student_id = sid
        /\ student_features[k].concept_id = concept_id
        /\ student_features[k].mastery_score >= 800
        /\ \A j \in 1..(k - 1) :
              ~(student_features[j].student_id = sid
                  /\ student_features[j].concept_id = concept_id)
\* the (pattern, strong concept) positions of the peer patterns of the plan
PeerPairs ==
    {<<a, b>> \in (1..Len(ret.patterns)) \X (1..StrongConceptCap) :
        b <= Len(ret.patterns[a].strong_concepts)}
PairConcept(pair) == ret.patterns[pair[1]].strong_concepts[pair[2]].concept_id
ItemsOfPair(pair) ==
    {i \in 1..Len(ret.behavior) :
        /\ ret.behavior[i].reason.peer_id = ret.patterns[pair[1]].peer_id
        /\ ret.behavior[i].concept_id = PairConcept(pair)}
\* k is the similarity in hundredths, rounded to the nearest
RoundsTo(sim, k) ==
    /\ k = 0 \/ ~FracLess(sim.n, sim.d, (2 * k - 1) * (2 * k - 1), 40000)
    /\ FracLess(sim.n, sim.d, (2 * k + 1) * (2 * k + 1), 40000)

\* C19: no behavior-based recommendation is made for a concept on which the
\* target student has mastery_score >= 80; every other (peer, strong concept)
\* pair whose concept has a catalog resource gets exactly one recommendation, of
\* a resource of that concept no other resource of the concept out-rates, with a
\* reason citing the peer and the similarity; no other recommendation is made.
C19_OneBestPerPeerConcept ==
    PlanReturned =>
        /\ \A i \in 1..Len(ret.behavior) :
              /\ ~AlreadyMastered(ret.sid, ret.behavior[i].concept_id)
              /\ \E pair \in PeerPairs : i \in ItemsOfPair(pair)
        /\ \A pair \in PeerPairs :
              IF AlreadyMastered(ret.sid, PairConcept(pair))
                    \/ CatalogOf(PairConcept(pair)) = {}
              THEN ItemsOfPair(pair) = {}
              ELSE /\ Cardinality(ItemsOfPair(pair)) = 1
                   /\ \A i \in ItemsOfPair(pair) :
                         /\ ConceptOfResource(ret.behavior[i].resource_id) = PairConcept(pair)
                         /\ \A r \in CatalogOf(PairConcept(pair)) :
                               Resources[r].rating <= ret.behavior[i].rating
                         /\ ret.behavior[i].reason.kind = "peer"
                         /\ RoundsTo(ret.patterns[pair[1]].similarity,
                                     ret.behavior[i].reason.similarity)

\* one plan: a strong concept skipped because the target masters it, one skipped
\* for want of a resource, and one recommended with the later of two resources
\* of the same best rating
C19_Witness ==
    /\ PlanReturned
    /\ \E p, q, t \in PeerPairs :
          /\ AlreadyMastered(ret.sid, PairConcept(p)) /\ CatalogOf(PairConcept(p)) # {}
          /\ ~AlreadyMastered(ret.sid, PairConcept(q)) /\ CatalogOf(PairConcept(q)) = {}
          /\ \E i \in ItemsOfPair(t) : \E r \in CatalogOf(PairConcept(t)) :
                /\ Resources[r].rating = ret.behavior[i].rating
                /\ Resources[r].resource_id < ret.behavior[i].resource_id

\* The engine is set up as main() does: the vectors hold the mastery scores of
\* the feature table, and the matrix was computed from them.
WiredAsMain ==
    /\ student_vectors.built
    /\ matrix_source = student_vectors
    /\ \A sid \in QueryIds : InIndex(sid) <=> HasFeatureRows(sid)
    /\ \A k \in 1..Len(student_features) :
          \E i \in 1..Len(student_vectors.index), j \in 1..Len(student_vectors.columns) :
              /\ student_vectors.index[i] = student_features[k].student_id
              /\ student_vectors.columns[j] = student_features[k].concept_id
              /\ student_vectors.values[i][j] = student_features[k].mastery_score

\* C20: every behavior-based recommendation made inside generate_personalized_plan
\* is for a concept on which the recommending peer's mastery_score is >= 80.
C20_PeerStrongFromEighty ==
    (PlanReturned /\ WiredAsMain) =>
        \A pair \in PeerPairs :
            ItemsOfPair(pair) # {}
               => ret.patterns[pair[1]].strong_concepts[pair[2]].mastery_score >= 800

AnalyzeReturned == ret.op = "analyze_peer_patterns" /\ ret.outcome = "ok"
\* the position of a concept among the vector columns, and a student's vector row
ColumnOf(concept_id) == IndexOf(student_vectors.columns, concept_id)
VectorOf(student_id) == student_vectors.values[IndexOf(student_vectors.index, student_id)]
\* the vector columns on which a student's value reaches the threshold
StrongColumns(student_id, threshold) ==
    {j \in 1..Len(student_vectors.columns) : VectorOf(student_id)[j] >= threshold}

\* C21: analyze_peer_patterns(student_id, top_k, mastery_threshold) returns one
\* entry per peer that find_similar_students(student_id, top_k) returns, in that
\* order, each with the peer's similarity and at most 5 strong concepts: the
\* first (up to) 5 vector columns, in column order, whose value for the peer is
\* >= mastery_threshold, whatever the scores of the columns behind them; with no
\* peers the mapping is empty.
C21_PeerPatterns ==
    AnalyzeReturned =>
        LET found == find_similar_students(ret.sid, ret.top_k, -1)
        IN /\ found.outcome = "ok"
           /\ Len(ret.patterns) = Len(found.peers)
           /\ found.peers = <<>> => ret.patterns = <<>>
           /\ \A i \in 1..Len(ret.patterns) :
                 LET entry == ret.patterns[i]
                     strong == entry.strong_concepts
                     all == StrongColumns(entry.peer_id, ret.threshold)
                 IN /\ entry.peer_id = found.peers[i].peer_id
                    /\ entry.similarity = found.peers[i].similarity
                    /\ \A j \in 1..Len(ret.patterns) :
                          ret.patterns[j].peer_id = entry.peer_id => i = j
                    /\ Len(strong) = Min(StrongConceptCap, Cardinality(all))
                    /\ \A k \in 1..Len(strong) :
                          /\ strong[k].concept_id \in SeqRange(student_vectors.columns)
                          /\ ColumnOf(strong[k].concept_id) \in all
                          /\ strong[k].mastery_score
                                = VectorOf(entry.peer_id)[ColumnOf(strong[k].concept_id)]
                          /\ k > 1 => ColumnOf(strong[k - 1].concept_id)
                                         < ColumnOf(strong[k].concept_id)
                          /\ \A j \in all :
                                j < ColumnOf(strong[k].concept_id)
                                   => \E h \in 1..(k - 1) :
                                          ColumnOf(strong[h].concept_id) = j

\* a peer with six columns at or above the threshold: five are listed, and the
\* column left out has a higher score than one that is listed
C21_Witness ==
    /\ AnalyzeReturned
    /\ \E i \in 1..Len(ret.patterns) :
          LET entry == ret.patterns[i]
          IN /\ Len(entry.strong_concepts) = StrongConceptCap
             /\ \E j \in StrongColumns(entry.peer_id, ret.threshold) :
                   /\ \A k \in 1..StrongConceptCap :
                         ColumnOf(entry.strong_concepts[k].concept_id) < j
                   /\ \E k \in 1..StrongConceptCap :
                         entry.strong_concepts[k].mastery_score
                            < VectorOf(entry.peer_id)[j]

VectorsReturned == ret.op = "create_student_vectors"
ColumnSet == SeqRange(student_vectors.columns)

\* C22: after create_student_vectors(records, all_concepts) every student's
\* vector has one value per column of the one column set, the number of columns
\* is the number of concepts of all_concepts, and every concept of all_concepts
\* is a column.  (The claim's last part, 0.0 for a concept without a record, is
\* the fillna of pivot_table and is not what fails.)
C22_VectorsSpanAllConcepts ==
    VectorsReturned =>
        /\ \A i \in 1..Len(student_vectors.index) :
              Len(student_vectors.values[i]) = Len(student_vectors.columns)
        /\ \A i, j \in 1..Len(student_vectors.columns) :
              student_vectors.columns[i] = student_vectors.columns[j] => i = j
        /\ SeqRange(AllConcepts) \subseteq ColumnSet
        /\ Cardinality(ColumnSet) = Cardinality(SeqRange(AllConcepts))

\* C23 as stated: a similarity_matrix that is present is the matrix of the current
\* student_vectors.
C23_MatrixOfCurrentVectors ==
    similarity_matrix.present
       => similarity_matrix.rows = cosine_similarity(student_vectors.values)

\* the similarity a peer query reports for a peer is the cell of the matrix at
\* the rows the two students have in the index of the current vectors
IsCellOf(similarity, matrix, student_id, peer_id) ==
    LET row == IndexOf(student_vectors.index, student_id)
        col == IndexOf(student_vectors.index, peer_id)
    IN /\ row \in 1..Len(matrix.rows)
       /\ col \in 1..Len(matrix.rows[row])
       /\ similarity = matrix.rows[row][col]

\* C23, amended: a similarity_matrix that is present was computed from the
\* student_vectors of the last successful compute_similarity (a call of it, or
\* the lazy one of a peer query made while no matrix was cached).
\* create_student_vectors leaves the cached matrix as it is, and a peer query made
\* while a matrix is cached does not recompute it: it reports the cells of the
\* cached matrix at the row positions of the current vectors, which are those of
\* a previous vector set until compute_similarity is called again.
C23_MatrixOfLastCompute ==
    [][ /\ ret'.op = "create_student_vectors" => similarity_matrix' = similarity_matrix
        /\ (ret'.op = "compute_similarity" /\ ret'.outcome = "ok")
              => /\ similarity_matrix'.present
                 /\ similarity_matrix'.rows = cosine_similarity(student_vectors'.values)
        /\ similarity_matrix' # similarity_matrix
              => /\ ret'.op = "compute_similarity" \/ ~similarity_matrix.present
                 /\ similarity_matrix'.present
                 /\ similarity_matrix'.rows = cosine_similarity(student_vectors'.values)
        /\ ( /\ ret'.op \in {"find_similar_students", "analyze_peer_patterns",
                              "generate_personalized_plan"}
             /\ ret'.outcome = "ok" )
              => /\ similarity_matrix.present => similarity_matrix' = similarity_matrix
                 /\ \A i \in 1..Len(ret'.peers) :
                       IsCellOf(ret'.peers[i].similarity, similarity_matrix',
                                ret'.sid, ret'.peers[i].peer_id)
                 /\ \A i \in 1..Len(ret'.patterns) :
                       IsCellOf(ret'.patterns[i].similarity, similarity_matrix',
                                ret'.sid, ret'.patterns[i].peer_id)
      ]_vars

\* the vectors were rebuilt after the matrix was computed, and a peer query
\* returned a similarity that is not the cosine of the two current vectors
C23_Witness ==
    /\ ret.op = "find_similar_students"
    /\ ret.outcome = "ok"
    /\ similarity_matrix.present
    /\ matrix_source # student_vectors
    /\ \E i \in 1..Len(ret.peers) :
          ~SimEq(ret.peers[i].similarity,
                 Cosine(VectorOf(ret.sid), VectorOf(ret.peers[i].peer_id)))

\* the schedule entry made of a recommendation
EntryOf(r) ==
    [concept |-> r.concept_name, activity |-> r.resource_type,
     duration |-> r.duration_minutes, resource |-> r.resource_name]

\* C24 as stated: every entry of a plan's study_schedule has the concept and the
\* resource of an item of the plan's recommendations list.
C24_ScheduleWithinRecommendations ==
    PlanReturned =>
        \A d \in 1..Len(ret.plan.study_schedule) :
            \A k \in 1..Len(ret.plan.study_schedule[d]) :
                \E i \in 1..Len(ret.plan.recommendations) :
                    /\ ret.plan.recommendations[i].concept_name
                          = ret.plan.study_schedule[d][k].concept
                    /\ ret.plan.recommendations[i].resource_name
                          = ret.plan.study_schedule[d][k].resource

\* C24, amended: in every plan returned by generate_personalized_plan each entry
\* of study_schedule corresponds to one of the first 7 items of the merged
\* recommendations, of which the plan's recommendations list holds the first 5:
\* the entry of the d-th weekday, d <= 5, is made of the d-th item of the
\* recommendations list, and Saturday and Sunday hold the 6th and the 7th merged
\* item, which the recommendations list does not hold.
C24_ScheduleWithinFirstSeven ==
    PlanReturned =>
        /\ Len(ret.plan.study_schedule) = 7
        /\ Len(ret.plan.recommendations) = Min(RecommendationCap, Len(ret.merged))
        /\ \A d \in 1..7 :
              IF d <= Len(ret.merged)
              THEN /\ ret.plan.study_schedule[d] = <<EntryOf(ret.merged[d])>>
                   /\ IF d <= RecommendationCap
                      THEN ret.plan.recommendations[d] = ret.merged[d]
                      ELSE KeyOf(ret.merged[d]) \notin KeysOf(ret.plan.recommendations)
              ELSE ret.plan.study_schedule[d] = <<>>

\* a plan of seven or more merged items: five are listed, and Sunday's entry is
\* of a resource that no listed recommendation names
C24_Witness ==
    /\ PlanReturned
    /\ Len(ret.merged) >= 7
    /\ Len(ret.plan.recommendations) = 5
    /\ Len(ret.plan.study_schedule[7]) = 1
    /\ \A i \in 1..5 :
          ret.plan.recommendations[i].resource_name
             # ret.plan.study_schedule[7][1].resource

====
